---- MODULE Spec2Model ----
(***************************************************************************)
(* Model of scripts/mcp-web-test.py: the module-level configuration        *)
(* (TEST_RESULTS, BASE_URL, TEST_PAGES), run_all_tests, which writes the    *)
(* JSON test plan, and test_page, the coroutine that drives the injected    *)
(* browser callables for one page.                                          *)
(*                                                                         *)
(* A Python string is a sequence of characters (for URLs: of text pieces); *)
(* None is the record None and any other optional value v is Some(v).       *)
(* Times are seconds counted from the start of the current call.  What the *)
(* script prints on stdout is not modelled.                                 *)
(***************************************************************************)
EXTENDS Naturals, Sequences, FiniteSets, TLC

VARIABLES
    env,              \* os.environ["TEST_BASE_URL"]: None when not set
    TEST_PAGES,       \* the list of page descriptors
    BASE_URL,         \* module constant read from the environment at import
    TEST_RESULTS,     \* the module-level results dictionary
    plan,             \* content of tests/e2e/mcp-test-plan.json (None: not written)
    pc,               \* where the current test_page call is suspended
    args,             \* page_name, url, expected_elements of the current call
    result,           \* the WebTestResult the call is building
    snapshot,         \* local variable snapshot
    screenshot_path,  \* local variable screenshot_path
    elapsed,          \* datetime.now() - start_time
    exc,              \* the exception that left the try block, if any
    trace             \* calls made so far by the current call and how each ended

planVars == <<env, TEST_PAGES, BASE_URL, TEST_RESULTS, plan>>
pageVars == <<pc, args, result, snapshot, screenshot_path, elapsed, exc, trace>>
vars == <<env, TEST_PAGES, BASE_URL, TEST_RESULTS, plan,
          pc, args, result, snapshot, screenshot_path, elapsed, exc, trace>>

----------------------------------------------------------------------------
(* Bounds *)

MaxPages == 2      \* length of TEST_PAGES
MaxElems == 2      \* length of an expected_elements argument
MaxTextLen == 2    \* length of a snapshot's text

----------------------------------------------------------------------------
(* Values *)

None == [none |-> TRUE]
Some(v) == [some |-> v]

\* One Hangul syllable (U+AC00), the kind of character the page names and
\* expected elements of TEST_PAGES are made of, next to ASCII letters ("BOM").
Hangul == "U+AC00"
Alphabet == {"b", "B", Hangul}

SeqsUpTo(S, n) == UNION {[1..k -> S] : k \in 0..n}

\* str.lower(), one character: Hangul has no case.
LowerChar(c) == IF c = "B" THEN "b" ELSE c

Lower(s) == [i \in 1..Len(s) |-> LowerChar(s[i])]

\* str.replace(' ', '-')
ReplaceSpace(s) == [i \in 1..Len(s) |-> IF s[i] = " " THEN "-" ELSE s[i]]

\* Python's `sub in text` on strings
IsSubstring(sub, text) ==
    \E i \in 0..Len(text) :
        /\ i + Len(sub) <= Len(text)
        /\ SubSeq(text, i + 1, i + Len(sub)) = sub

\* Mutant of DictGet: the key misspelt, so the default is always taken
DictGetWrongKey(d, key, default) ==
    IF "expected" \in DOMAIN d THEN d["expected"] ELSE default

\* dict.get(key, default)
DictGet(d, key, default) == IF key \in DOMAIN d THEN d[key] ELSE default

----------------------------------------------------------------------------
(* Module level: TEST_RESULTS, BASE_URL, TEST_PAGES *)

InitialTestResults ==
    [start_time |-> None, end_time |-> None, total_tests |-> 0,
     passed |-> 0, failed |-> 0, results |-> <<>>]

DefaultBaseUrl == <<"http://localhost:5000">>

\* TEST_BASE_URL: not set, set to the empty string, set to an address
EnvValues == {None, Some(<<>>), Some(<<"http://erp.test:3000">>)}

\* Mutant of os_getenv: `os.getenv(key) or default`, which also replaces an
\* empty value
os_getenv_or_default(value, default) ==
    IF value = None \/ value.some = <<>> THEN default ELSE value.some

\* os.getenv(key, default) given the variable's value
os_getenv(value, default) == IF value = None THEN default ELSE value.some

\* Page descriptors of the shape of TEST_PAGES' entries; the last two are the
\* shapes page_config.get("expected_elements", []) allows for.
PageConfigs ==
    { [name |-> <<Hangul>>, url |-> <<"/login">>,
       expected_elements |-> << <<Hangul>>, <<"B">> >>],
      [name |-> <<"B", " ", Hangul>>, url |-> <<"/master/bom">>,
       expected_elements |-> << <<"B">>, <<Hangul>> >>],
      [name |-> <<Hangul, " ", Hangul>>, url |-> <<"/">>,
       expected_elements |-> <<>>],
      [name |-> <<Hangul, " ", "B">>, url |-> <<"/stock">>] }

\* datetime.now().isoformat()
Timestamps == {1, 2}

\* Mutant of PlanEntry: the url left without the base URL
PlanEntryPathOnly(base_url, page_config) ==
    [name |-> page_config.name,
     url |-> page_config.url,
     expected_elements |-> DictGet(page_config, "expected_elements", <<>>)]

\* One pass of the loop body of run_all_tests
PlanEntry(base_url, page_config) ==
    [name |-> page_config.name,
     url |-> base_url \o page_config.url,
     expected_elements |-> DictGet(page_config, "expected_elements", <<>>)]

\* The list `results` built by the loop of run_all_tests
PlanEntries(base_url, pages) ==
    [i \in 1..Len(pages) |-> PlanEntry(base_url, pages[i])]

\* The dictionary run_all_tests dumps to the plan file
PlanDocument(base_url, pages, created_at) ==
    [base_url |-> base_url,
     test_pages |-> PlanEntries(base_url, pages),
     created_at |-> created_at]

\* Mutant of ResultsStarted: line 231 left out
ResultsStartedNoTotal(tr, t0, pages) == [tr EXCEPT !.start_time = Some(t0)]

\* TEST_RESULTS after lines 230-231
ResultsStarted(tr, t0, pages) ==
    [tr EXCEPT !.start_time = Some(t0), !.total_tests = Len(pages)]

\* TEST_RESULTS after line 263
ResultsEnded(tr, t2) == [tr EXCEPT !.end_time = Some(t2)]

\* run_all_tests, the plan file written
RunAllTests ==
    /\ \E t0, t1, t2 \in Timestamps :
        /\ t0 <= t1 /\ t1 <= t2
        /\ TEST_RESULTS' = ResultsEnded(ResultsStarted(TEST_RESULTS, t0, TEST_PAGES), t2)
        /\ plan' = Some(PlanDocument(BASE_URL, TEST_PAGES, t1))
    /\ UNCHANGED <<env, TEST_PAGES, BASE_URL>>
    /\ UNCHANGED pageVars

\* run_all_tests, os.makedirs or open raising OSError: the exception leaves
\* the function after lines 230-231 and before the file is written.
RunAllTestsIOError ==
    /\ \E t0 \in Timestamps :
        TEST_RESULTS' = ResultsStarted(TEST_RESULTS, t0, TEST_PAGES)
    /\ UNCHANGED <<env, TEST_PAGES, BASE_URL, plan>>
    /\ UNCHANGED pageVars

----------------------------------------------------------------------------
(* WebTestResult and test_page *)

WebTestResult(page_name, url) ==
    [page_name |-> page_name, url |-> url, passed |-> FALSE, error |-> None,
     screenshot_path |-> None, duration |-> 0, checks |-> <<>>]

\* Exceptions: the classes under Exception are caught by `except Exception`;
\* asyncio.CancelledError and KeyboardInterrupt derive from BaseException only.
ExceptionClasses == {"RuntimeError", "TypeError", "OSError"}
BaseOnlyClasses == {"CancelledError", "KeyboardInterrupt"}

Exc(cls, msg) == [cls |-> cls, msg |-> msg]

IsException(e) == e.cls \in ExceptionClasses

\* str(e)
Str(e) == e.msg

\* What an injected callable may raise
InjectedExceptions ==
    { Exc("RuntimeError", ""), Exc("RuntimeError", "timeout"),
      Exc("CancelledError", "") }

\* asyncio.sleep raises only when the task is cancelled.
SleepExceptions == { Exc("CancelledError", "") }

SleepSeconds == 2

\* Time an awaited call of an injected callable takes
Delays == {0, 1}

\* Snapshots: a string, a structured value (a list holding one string), or a
\* value json.dumps has no encoding for (bytes, a set, an object).
Snapshot(kind, text) == [kind |-> kind, text |-> text]

Snapshots ==
    { Snapshot(k, t) : k \in {"str", "list"}, t \in SeqsUpTo(Alphabet, MaxTextLen) }
        \cup { Snapshot("object", <<>>) }

IsStr(snap) == snap.kind = "str"

JsonSerializable(snap) == snap.kind \in {"str", "list"}

\* json.dumps of one character inside a string, ensure_ascii left at its
\* default True: a non-ASCII character becomes its \uXXXX escape.
JsonEscapeChar(c) ==
    IF c = Hangul THEN <<"\\", "u", "a", "c", "0", "0">>
    ELSE IF c = "\"" THEN <<"\\", "\"">>
    ELSE IF c = "\\" THEN <<"\\", "\\">>
    ELSE <<c>>

RECURSIVE JsonEscape(_)
JsonEscape(s) ==
    IF s = <<>> THEN <<>> ELSE JsonEscapeChar(Head(s)) \o JsonEscape(Tail(s))

\* json.dumps(snapshot) of a serializable, non-str snapshot
json_dumps(snap) == <<"[", "\"">> \o JsonEscape(snap.text) \o <<"\"", "]">>

\* line 86
PageText(snap) == IF IsStr(snap) THEN Lower(snap.text) ELSE Lower(json_dumps(snap))

\* The two check strings of lines 90 and 92
FoundCheck(element) == [mark |-> "found", element |-> element]
MissingCheck(element) == [mark |-> "missing", element |-> element]

IsFoundCheck(check) == check.mark = "found"

\* Mutant of ElementChecks: nothing appended for an element that is missing
ElementChecksFoundOnly(page_text, elements) ==
    SelectSeq([i \in 1..Len(elements) |->
                  IF IsSubstring(Lower(elements[i]), page_text)
                  THEN FoundCheck(elements[i])
                  ELSE MissingCheck(elements[i])],
              IsFoundCheck)

\* lines 87-92: the checks appended for expected_elements
ElementChecks(page_text, elements) ==
    [i \in 1..Len(elements) |->
        IF IsSubstring(Lower(elements[i]), page_text)
        THEN FoundCheck(elements[i])
        ELSE MissingCheck(elements[i])]

\* `if expected_elements:`
Truthy(expected_elements) ==
    expected_elements # None /\ expected_elements.some # <<>>

\* lines 95-96
ScreenshotFilename(page_name, now) ==
    <<"test-">> \o Lower(ReplaceSpace(page_name)) \o <<"-", now, ".png">>

ScreenshotPath(page_name, now) ==
    <<"tests/e2e/screenshots/">> \o ScreenshotFilename(page_name, now)

\* The events of trace
Call(fn) == [ev |-> "call", fn |-> fn]
Return(fn) == [ev |-> "return", fn |-> fn]
Raise(fn) == [ev |-> "raise", fn |-> fn]

\* Mutant of ExceptClause: `result.error = str(e) or None`
ExceptClauseNoEmptyMessage(res, e) ==
    IF IsException(e)
    THEN [res EXCEPT !.passed = FALSE,
                     !.error = IF Str(e) = "" THEN None ELSE Some(Str(e))]
    ELSE res

\* lines 105-107: the except clause, entered for instances of Exception only
ExceptClause(res, e) ==
    IF IsException(e)
    THEN [res EXCEPT !.passed = FALSE, !.error = Some(Str(e))]
    ELSE res

\* line 111: the finally clause
FinallyClause(res, now) == [res EXCEPT !.duration = now]

\* Mutant of AfterException: the except clause ending in `raise`
AfterExceptionReraised(e) == "raised"

\* Where the call is once exception e has left the try block: line 113 is
\* reached when the except clause took it, otherwise e leaves test_page.
AfterException(e) == IF IsException(e) THEN "returned" ELSE "raised"

\* Mutant of Raised: the failed call is made again
RaisedRetried(fn, e, now) ==
    /\ trace' = trace \o <<Raise(fn), Call(fn)>>
    /\ elapsed' = now
    /\ exc' = exc
    /\ pc' = pc
    /\ UNCHANGED <<args, snapshot, screenshot_path>>

\* Exception e raised by fn at time now, inside the try block
Raised(fn, e, now) ==
    /\ trace' = Append(trace, Raise(fn))
    /\ elapsed' = now
    /\ exc' = Some(e)
    /\ pc' = AfterException(e)
    /\ UNCHANGED <<args, snapshot, screenshot_path>>

NoArgs == [page_name |-> <<>>, url |-> <<>>, expected_elements |-> None]

\* No call of test_page in progress
InitPageVars ==
    /\ pc = "idle"
    /\ args = NoArgs
    /\ result = None
    /\ snapshot = None
    /\ screenshot_path = None
    /\ elapsed = 0
    /\ exc = None
    /\ trace = <<>>

\* test_page called: lines 70-76, up to the await of browser_navigate
TestPageCall(names, urls, expecteds) ==
    /\ pc = "idle"
    /\ \E n \in names, u \in urls, ee \in expecteds :
        /\ args' = [page_name |-> n, url |-> u, expected_elements |-> ee]
        /\ result' = WebTestResult(n, u)
    /\ snapshot' = None
    /\ screenshot_path' = None
    /\ elapsed' = 0
    /\ exc' = None
    /\ trace' = <<Call("browser_navigate")>>
    /\ pc' = "browser_navigate"
    /\ UNCHANGED planVars

\* browser_navigate returns: line 79 starts the wait
NavigateReturns ==
    /\ pc = "browser_navigate"
    /\ \E d \in Delays : elapsed' = elapsed + d
    /\ trace' = trace \o <<Return("browser_navigate"), Call("asyncio.sleep")>>
    /\ pc' = "asyncio.sleep"
    /\ UNCHANGED <<args, result, snapshot, screenshot_path, exc>>
    /\ UNCHANGED planVars

\* browser_navigate raises
NavigateRaises ==
    /\ pc = "browser_navigate"
    /\ \E e \in InjectedExceptions, d \in Delays :
        /\ Raised("browser_navigate", e, elapsed + d)
        /\ result' = FinallyClause(ExceptClause(result, e), elapsed + d)
    /\ UNCHANGED planVars

\* the wait is over: line 82 calls browser_snapshot
SleepReturns ==
    /\ pc = "asyncio.sleep"
    /\ elapsed' = elapsed + SleepSeconds
    /\ trace' = trace \o <<Return("asyncio.sleep"), Call("browser_snapshot")>>
    /\ pc' = "browser_snapshot"
    /\ UNCHANGED <<args, result, snapshot, screenshot_path, exc>>
    /\ UNCHANGED planVars

\* the task is cancelled during the wait
SleepRaises ==
    /\ pc = "asyncio.sleep"
    /\ \E e \in SleepExceptions, d \in Delays :
        /\ Raised("asyncio.sleep", e, elapsed + d)
        /\ result' = FinallyClause(ExceptClause(result, e), elapsed + d)
    /\ UNCHANGED planVars

\* browser_snapshot raises
SnapshotRaises ==
    /\ pc = "browser_snapshot"
    /\ \E e \in InjectedExceptions, d \in Delays :
        /\ Raised("browser_snapshot", e, elapsed + d)
        /\ result' = FinallyClause(ExceptClause(result, e), elapsed + d)
    /\ UNCHANGED planVars

\* result after lines 85-92 have run to their end on snapshot snap
Checked(res, snap, expected_elements) ==
    IF Truthy(expected_elements)
    THEN [res EXCEPT !.checks = res.checks \o ElementChecks(PageText(snap), expected_elements.some)]
    ELSE res

\* line 86 raises TypeError: json.dumps of a value it cannot encode
DumpsRaises(snap, expected_elements) ==
    Truthy(expected_elements) /\ ~JsonSerializable(snap)

\* browser_snapshot returns snap: lines 82-99 run up to the await of
\* browser_take_screenshot, unless json.dumps or os.makedirs raises.
SnapshotReturns(snaps) ==
    /\ pc = "browser_snapshot"
    /\ \E snap \in snaps, d \in Delays :
        LET now == elapsed + d
            checked == Checked(result, snap, args.expected_elements)
        IN  \/ /\ DumpsRaises(snap, args.expected_elements)
               /\ trace' = trace \o <<Return("browser_snapshot"), Raise("json.dumps")>>
               /\ elapsed' = now
               /\ exc' = Some(Exc("TypeError", "not JSON serializable"))
               /\ pc' = AfterException(Exc("TypeError", "not JSON serializable"))
               /\ snapshot' = Some(snap)
               /\ result' = FinallyClause(
                                ExceptClause(result, Exc("TypeError", "not JSON serializable")), now)
               /\ UNCHANGED <<args, screenshot_path>>
            \/ /\ ~DumpsRaises(snap, args.expected_elements)
               /\ trace' = trace \o <<Return("browser_snapshot"), Raise("os.makedirs")>>
               /\ elapsed' = now
               /\ exc' = Some(Exc("OSError", "permission denied"))
               /\ pc' = AfterException(Exc("OSError", "permission denied"))
               /\ snapshot' = Some(snap)
               /\ screenshot_path' = Some(ScreenshotPath(args.page_name, now))
               /\ result' = FinallyClause(
                                ExceptClause(checked, Exc("OSError", "permission denied")), now)
               /\ UNCHANGED args
            \/ /\ ~DumpsRaises(snap, args.expected_elements)
               /\ trace' = trace \o <<Return("browser_snapshot"), Return("os.makedirs"),
                                      Call("browser_take_screenshot")>>
               /\ elapsed' = now
               /\ pc' = "browser_take_screenshot"
               /\ snapshot' = Some(snap)
               /\ screenshot_path' = Some(ScreenshotPath(args.page_name, now))
               /\ result' = checked
               /\ UNCHANGED <<args, exc>>
    /\ UNCHANGED planVars

\* Mutant of Passed: a page passes only if every expected element was found
PassedIfAllFound(res, path) ==
    [res EXCEPT !.screenshot_path = path,
                !.passed = \A i \in 1..Len(res.checks) : res.checks[i].mark = "found"]

\* lines 100-101
Passed(res, path) == [res EXCEPT !.screenshot_path = path, !.passed = TRUE]

\* browser_take_screenshot returns: lines 100-103, 111 and 113
ScreenshotReturns ==
    /\ pc = "browser_take_screenshot"
    /\ \E d \in Delays :
        /\ elapsed' = elapsed + d
        /\ result' = FinallyClause(Passed(result, screenshot_path), elapsed + d)
    /\ trace' = Append(trace, Return("browser_take_screenshot"))
    /\ pc' = "returned"
    /\ UNCHANGED <<args, snapshot, screenshot_path, exc>>
    /\ UNCHANGED planVars

\* browser_take_screenshot raises
ScreenshotRaises ==
    /\ pc = "browser_take_screenshot"
    /\ \E e \in InjectedExceptions, d \in Delays :
        /\ Raised("browser_take_screenshot", e, elapsed + d)
        /\ result' = FinallyClause(ExceptClause(result, e), elapsed + d)
    /\ UNCHANGED planVars

\* The call is over: its frame is gone and the caller, holding the result or
\* the exception, goes on
CallerProceeds ==
    /\ pc \in {"returned", "raised"}
    /\ pc' = "idle"
    /\ args' = NoArgs
    /\ result' = None
    /\ snapshot' = None
    /\ screenshot_path' = None
    /\ elapsed' = 0
    /\ exc' = None
    /\ trace' = <<>>
    /\ UNCHANGED planVars

----------------------------------------------------------------------------
(* Arguments of test_page *)

PageNames == { <<Hangul>>, <<"B", " ", Hangul>> }

Urls == { DefaultBaseUrl \o <<"/login">>, DefaultBaseUrl \o <<"/master/bom">> }

\* Text fragments of the kinds TEST_PAGES lists: "BOM", a Korean word, a mix
Elements == { <<"B">>, <<Hangul>>, <<Hangul, "B">> }

ExpectedElements == {None} \cup { Some(l) : l \in SeqsUpTo(Elements, MaxElems) }

----------------------------------------------------------------------------
(* Specifications *)

\* The module imported, for any environment and any list of page descriptors
Init ==
    /\ env \in EnvValues
    /\ TEST_PAGES \in SeqsUpTo(PageConfigs, MaxPages)
    /\ BASE_URL = os_getenv(env, DefaultBaseUrl)
    /\ TEST_RESULTS = InitialTestResults
    /\ plan = None
    /\ InitPageVars

\* The whole script, test_page on one page and two snapshots
Next ==
    \/ RunAllTests
    \/ RunAllTestsIOError
    \/ TestPageCall({<<"B", " ", Hangul>>}, {DefaultBaseUrl \o <<"/master/bom">>},
                    {Some(<< <<"B">> >>)})
    \/ NavigateReturns
    \/ NavigateRaises
    \/ SleepReturns
    \/ SleepRaises
    \/ SnapshotReturns({Snapshot("str", <<"b">>), Snapshot("object", <<>>)})
    \/ SnapshotRaises
    \/ ScreenshotReturns
    \/ ScreenshotRaises
    \/ CallerProceeds

Spec == Init /\ [][Next]_vars

\* The module imported with TEST_BASE_URL not set
InitPage ==
    /\ env = None
    /\ TEST_PAGES = <<>>
    /\ BASE_URL = os_getenv(env, DefaultBaseUrl)
    /\ TEST_RESULTS = InitialTestResults
    /\ plan = None
    /\ InitPageVars

\* test_page alone, on every page, expected_elements and snapshot
NextPage ==
    \/ TestPageCall(PageNames, Urls, ExpectedElements)
    \/ NavigateReturns
    \/ NavigateRaises
    \/ SleepReturns
    \/ SleepRaises
    \/ SnapshotReturns(Snapshots)
    \/ SnapshotRaises
    \/ ScreenshotReturns
    \/ ScreenshotRaises
    \/ CallerProceeds

SpecPage == InitPage /\ [][NextPage]_vars

----------------------------------------------------------------------------
(* The test plan: C1, C2, C5, C6 (specification Spec) *)

HasPlan == plan # None

test_pages == plan.some.test_pages

\* C1: the plan's test_pages has one entry per page of TEST_PAGES, in the
\* order of TEST_PAGES, the i-th with the i-th page's name and with the url
\* BASE_URL followed by that page's path.
C1_OneEntryPerPage ==
    HasPlan =>
        /\ Len(test_pages) = Len(TEST_PAGES)
        /\ \A i \in 1..Len(TEST_PAGES) :
            /\ test_pages[i].name = TEST_PAGES[i].name
            /\ test_pages[i].url = BASE_URL \o TEST_PAGES[i].url

\* A plan of two different pages, in an order that matters
C1_Witness ==
    /\ HasPlan
    /\ Len(TEST_PAGES) = 2
    /\ TEST_PAGES[1].name # TEST_PAGES[2].name
    /\ test_pages[1].url # test_pages[2].url

\* C2: each entry's expected_elements is the page's configured list, and the
\* empty list when the page descriptor has no expected_elements key.
C2_ExpectedElements ==
    HasPlan =>
        \A i \in 1..Len(TEST_PAGES) :
            IF "expected_elements" \in DOMAIN TEST_PAGES[i]
            THEN test_pages[i].expected_elements = TEST_PAGES[i].expected_elements
            ELSE test_pages[i].expected_elements = <<>>

\* A plan with a page that has no expected_elements key and a page that
\* lists two elements
C2_Witness ==
    /\ HasPlan
    /\ \E i, j \in 1..Len(TEST_PAGES) :
        /\ "expected_elements" \notin DOMAIN TEST_PAGES[i]
        /\ "expected_elements" \in DOMAIN TEST_PAGES[j]
        /\ Len(test_pages[j].expected_elements) = 2

\* C5: the plan's base_url is the value of TEST_BASE_URL when it is set (be
\* it to the empty string) and http://localhost:5000 otherwise, and every
\* entry's url is that base_url followed by the page's path.
C5_BaseUrl ==
    HasPlan =>
        /\ env = None => plan.some.base_url = <<"http://localhost:5000">>
        /\ env # None => plan.some.base_url = env.some
        /\ \A i \in 1..Len(test_pages) :
            /\ Len(test_pages[i].url) = Len(plan.some.base_url) + Len(TEST_PAGES[i].url)
            /\ SubSeq(test_pages[i].url, 1, Len(plan.some.base_url)) = plan.some.base_url

\* A plan written with TEST_BASE_URL set to the empty string
C5_Witness ==
    /\ HasPlan
    /\ env = Some(<<>>)
    /\ Len(test_pages) >= 1

\* C6 as claimed: no operation changes a field of TEST_RESULTS.
C6_NeverWritten == TEST_RESULTS = InitialTestResults

\* C6, amended: TEST_RESULTS is written and never read.  No step of
\* test_page changes it; run_all_tests sets start_time and total_tests (the
\* number of pages) and, once the plan file is written, end_time; passed,
\* failed and results keep 0, 0 and []; and the plan written is the one
\* BASE_URL and TEST_PAGES determine.
C6_WrittenByRunAllTestsOnly ==
    [][ /\ pageVars' # pageVars => TEST_RESULTS' = TEST_RESULTS
        /\ TEST_RESULTS'.passed = 0
        /\ TEST_RESULTS'.failed = 0
        /\ TEST_RESULTS'.results = <<>>
        /\ TEST_RESULTS' # TEST_RESULTS =>
            /\ TEST_RESULTS'.start_time # None
            /\ TEST_RESULTS'.total_tests = Len(TEST_PAGES)
        /\ TEST_RESULTS'.end_time # TEST_RESULTS.end_time => plan' # None
        /\ plan' # plan =>
            /\ TEST_RESULTS'.end_time # None
            /\ \E t \in Timestamps : plan' = Some(PlanDocument(BASE_URL, TEST_PAGES, t))
      ]_vars

\* run_all_tests has written the plan of a non-empty TEST_PAGES and a call
\* of test_page has returned
C6_Witness ==
    /\ HasPlan
    /\ TEST_RESULTS.end_time # None
    /\ TEST_RESULTS.total_tests = 2
    /\ pc = "returned"

----------------------------------------------------------------------------
(* test_page: C3, C4, C7-C10 (specification SpecPage) *)

\* test_page has returned its result to the caller
Returned == pc = "returned"

\* The exception of the current call left test_page
Propagated == pc = "raised"

InjectedCallables == {"browser_navigate", "browser_snapshot", "browser_take_screenshot"}

IsInjected(event) == event.fn \in InjectedCallables

\* The calls of the injected callables of a call in which nothing raises
FullCallSequence ==
    << Call("browser_navigate"), Return("browser_navigate"),
       Call("browser_snapshot"), Return("browser_snapshot"),
       Call("browser_take_screenshot"), Return("browser_take_screenshot") >>

IsPrefix(s, t) == Len(s) <= Len(t) /\ SubSeq(t, 1, Len(s)) = s

HasReturned(fn) == \E i \in 1..Len(trace) : trace[i] = Return(fn)

\* C3 as claimed: every exception raised during a call is caught, the call
\* returning a result with passed = false and error the exception's message.
C3_EveryExceptionCaught ==
    exc # None =>
        /\ Returned
        /\ result.passed = FALSE
        /\ result.error = Some(exc.some.msg)

\* C3, amended: an exception that is an instance of Exception is caught, the
\* call returning a result with passed = false and error its message; one
\* that derives from BaseException only (asyncio.CancelledError, all the wait
\* can raise; KeyboardInterrupt) leaves test_page, which returns no result.
C3_ExceptionsCaught ==
    exc # None =>
        IF exc.some.cls \in {"RuntimeError", "TypeError", "OSError"}
        THEN /\ Returned
             /\ result.passed = FALSE
             /\ result.error = Some(exc.some.msg)
        ELSE /\ Propagated
             /\ exc.some.cls \in {"CancelledError", "KeyboardInterrupt"}

\* browser_snapshot raised an Exception with a message and the call returned
C3_Witness ==
    /\ Returned
    /\ exc = Some(Exc("RuntimeError", "timeout"))
    /\ trace[Len(trace)] = Raise("browser_snapshot")
    /\ result.error = Some("timeout")

\* C4: the injected callables are called one after the other, each at most
\* once, in the order navigate, snapshot, screenshot, a call starting only
\* when the one before has returned; whatever raises ends the call of
\* test_page, nothing being called after it.
C4_SequentialNoRetry ==
    LET injected == SelectSeq(trace, IsInjected)
    IN  /\ \/ IsPrefix(injected, FullCallSequence)
           \/ /\ Len(injected) >= 2
              /\ injected[Len(injected) - 1].ev = "call"
              /\ injected[Len(injected)] = Raise(injected[Len(injected) - 1].fn)
              /\ IsPrefix(SubSeq(injected, 1, Len(injected) - 1), FullCallSequence)
        /\ \A i \in 1..Len(trace) : trace[i].ev = "raise" => i = Len(trace)
        /\ \A i \in 1..Len(trace) :
            trace[i].ev = "call" /\ i > 1 => trace[i - 1].ev = "return"

\* All three callables were called and returned
C4_Witness ==
    /\ Returned
    /\ SelectSeq(trace, IsInjected) = FullCallSequence

\* The element of each check is reported found exactly when its text occurs,
\* ignoring case, in the text the snapshot holds
FoundIffOccurs ==
    \A i \in 1..Len(result.checks) :
        result.checks[i].mark = "found"
            <=> IsSubstring(Lower(result.checks[i].element), Lower(snapshot.some.text))

\* C7 as claimed: for a string and for a structured snapshot alike, an
\* element is reported found if and only if its text occurs, ignoring case,
\* in the snapshot's content.
C7_FoundIffOccurs == snapshot # None => FoundIffOccurs

\* What the code does keep of C7: the equivalence for every snapshot that is
\* a string.
C7_FoundIffOccursInStr == snapshot # None /\ IsStr(snapshot.some) => FoundIffOccurs

\* The list expected_elements stands for
ExpectedList ==
    IF args.expected_elements = None THEN <<>> ELSE args.expected_elements.some

OneCheckPerElement ==
    /\ Len(result.checks) = Len(ExpectedList)
    /\ \A i \in 1..Len(ExpectedList) : result.checks[i].element = ExpectedList[i]

\* C8 as claimed: once a snapshot is obtained the checks are one per expected
\* element, in order, each naming its element; they are empty when
\* expected_elements is None or empty and when navigate or snapshot raises.
C8_OneCheckPerElement ==
    pc # "idle" =>
        IF snapshot # None THEN OneCheckPerElement ELSE result.checks = <<>>

\* C8, amended: as claimed when the snapshot is a string or a value
\* json.dumps can encode; when it is neither and expected_elements is not
\* empty, json.dumps raises TypeError before any check is appended: the checks
\* are empty and the result is a failure.
C8_OneCheckPerElementIfSerializable ==
    pc # "idle" =>
        IF snapshot = None THEN result.checks = <<>>
        ELSE IF snapshot.some.kind \in {"str", "list"} \/ ExpectedList = <<>>
             THEN OneCheckPerElement
             ELSE /\ result.checks = <<>>
                  /\ result.passed = FALSE
                  /\ exc # None /\ exc.some.cls = "TypeError"

\* Two different elements checked, the first found and the second not
C8_Witness ==
    /\ snapshot # None
    /\ Len(ExpectedList) = 2
    /\ ExpectedList[1] # ExpectedList[2]
    /\ Len(result.checks) = 2
    /\ result.checks[1].mark = "found"
    /\ result.checks[2].mark = "missing"

\* C9: passed is true exactly when navigate, snapshot, the directory creation
\* and the screenshot all completed; what the checks report plays no part.
C9_PassedIgnoresChecks ==
    Returned =>
        (result.passed = TRUE
            <=> /\ HasReturned("browser_navigate")
                /\ HasReturned("browser_snapshot")
                /\ HasReturned("os.makedirs")
                /\ HasReturned("browser_take_screenshot"))

\* A result that passed although none of its two elements was found
C9_Witness ==
    /\ Returned
    /\ result.passed = TRUE
    /\ Len(result.checks) = 2
    /\ \A i \in 1..Len(result.checks) : result.checks[i].mark = "missing"

\* C10: in a returned result passed is true exactly when error is None and
\* exactly when screenshot_path is set, and page_name and url are the
\* arguments of the call.
C10_ResultConsistent ==
    Returned =>
        /\ result.passed = TRUE <=> result.error = None
        /\ result.passed = TRUE <=> result.screenshot_path # None
        /\ result.page_name = args.page_name
        /\ result.url = args.url

\* A failure whose exception has the empty message, raised once the
\* screenshot path was computed
C10_Witness ==
    /\ Returned
    /\ result.passed = FALSE
    /\ result.error = Some("")
    /\ screenshot_path # None
    /\ result.screenshot_path = None

====
